---- MODULE Spec2Model ----
(***************************************************************************)
(* Model of generate_portfolio.py: main() loads portfolio.json, sets       *)
(* current_year, inlines the icon files named by social_links entries,     *)
(* looks up and renders two templates, writes index.html and resume.html   *)
(* and prints a confirmation.  Every statement of main() that can raise is *)
(* one action (two for a `with open(...)` block: the open, then the body   *)
(* together with the exit of the block).  The script may be run again      *)
(* after it ended; the files on disk are what one run leaves to the next.  *)
(*                                                                         *)
(* Encoding.  An optional key of a mapping is a set: {} when the key is    *)
(* absent, {v} when it is present with value v.  A JSON value stored under *)
(* social_links is [tag, items]: tag is its JSON type and items what the   *)
(* Python `for` statement would iterate over.  A file on disk is           *)
(* [exists, segs]: segs is the sequence of pieces written to it since it   *)
(* was last truncated.  A rendered page is [tpl, ctx]: the external        *)
(* template engine is a function of the template and of the context.       *)
(***************************************************************************)
EXTENDS Integers, Sequences, FiniteSets, TLC

VARIABLES input, before, run, pc, failedAt, data, i, handles, clock,
          html_output, resume_output, files, confirmations, log,
          openedFor, last

vars == <<input, before, run, pc, failedAt, data, i, handles, clock,
          html_output, resume_output, files, confirmations, log,
          openedFor, last>>

\* longest social_links list drawn as input
MaxLinks == 2
\* number of times the script is run in a row
MaxRuns == 2

\* values datetime.now(tz=UTC).year can take
Years == {2025, 2026}
\* a current_year carried by portfolio.json
InputYears == {1999}

\* icon paths an entry can name; "missing.svg" does not exist on disk
Paths == {"a.svg", "b.svg", "missing.svg"}

\* the text of the icon file at a path, {} when there is no such file
IconText(p) ==
  IF p = "a.svg" THEN {"<svg>A</svg>"}
  ELSE IF p = "b.svg" THEN {"<svg>B</svg>"}
  ELSE {}

OutputPaths == {"index.html", "resume.html"}

----------------------------------------------------------------------------
\* JSON values

DictElems == [tag : {"dict"},
              svg_path : {{}} \cup {{p} : p \in Paths},
              svg_data : {{}, {"<old/>"}},
              name : {{"gh"}}]

OtherElems == [tag : {"str", "null"}, svg_path : {{}}, svg_data : {{}},
               name : {{}}]

Elems == DictElems \cup OtherElems

StrElem == [tag |-> "str", svg_path |-> {}, svg_data |-> {}, name |-> {}]

Lists == UNION {[1..n -> Elems] : n \in 0..MaxLinks}

NoLinks == [tag |-> "absent", items |-> <<>>]

SLValues ==
  {NoLinks}
  \cup [tag : {"null", "num", "bool"}, items : {<<>>}]
  \cup [tag : {"str", "dict"}, items : {<<StrElem>>}]
  \cup [tag : {"list"}, items : Lists]

NoDoc == [top |-> "unset", current_year |-> {}, social_links |-> NoLinks,
          name |-> ""]

Inputs ==
  [top : {"dict"}, current_year : {{}} \cup {{y} : y \in InputYears},
   social_links : SLValues, name : {"Sam"}]
  \cup {[NoDoc EXCEPT !.top = "list"]}

----------------------------------------------------------------------------
\* files and rendered text

NoText == [tpl |-> "none", ctx |-> NoDoc]
OldText == [tpl |-> "old", ctx |-> NoDoc]

NoFile == [exists |-> FALSE, segs |-> <<>>]
OldFile == [exists |-> TRUE, segs |-> <<[text |-> OldText, part |-> "all"]>>]
FullFile(text) == [exists |-> TRUE, segs |-> <<[text |-> text, part |-> "all"]>>]

\* template.render(**context)
render_template(template, context) == [tpl |-> template, ctx |-> context]

\* Path(file_path).open("w"): the file is created or truncated
TruncateAppend(f) == [exists |-> TRUE, segs |-> f.segs]
Truncate(f) == [exists |-> TRUE, segs |-> <<>>]

\* f.write(content) that completes
WriteAll(f, text) == [f EXCEPT !.segs = Append(@, [text |-> text, part |-> "all"])]
\* f.write(content) that raises: nothing, or only a part, reached the disk
WriteSome(f, text) ==
  {f, [f EXCEPT !.segs = Append(@, [text |-> text, part |-> "some"])]}

\* leaving a `with` block closes its handle, also when the body raised
CloseLeak(h, path) == h
Close(h, path) == h \ {path}

\* the content argument of the two write_to_file calls of main()
ContentForSame(path, html, resume) == html
ContentFor(path, html, resume) ==
  IF path = "index.html" THEN html ELSE resume

----------------------------------------------------------------------------
\* the statements of main(), each named by its first step

MainOrderWriteEarly ==
  <<"load_open", "set_year", "links_check", "get_index", "get_resume",
    "render_index", "open_index", "render_resume", "open_resume", "print">>
MainOrderPrintEarly ==
  <<"load_open", "set_year", "links_check", "get_index", "get_resume",
    "render_index", "render_resume", "open_index", "print", "open_resume">>
MainOrder ==
  <<"load_open", "set_year", "links_check", "get_index", "get_resume",
    "render_index", "render_resume", "open_index", "open_resume", "print">>

After(stmt) ==
  LET k == CHOOSE n \in 1..Len(MainOrder) : MainOrder[n] = stmt
  IN IF k = Len(MainOrder) THEN "done" ELSE MainOrder[k + 1]

Terminal == pc \in {"done", "failed"}

\* data["current_year"] = datetime.now(tz=UTC).year
YearValueKeep(doc, y) == IF doc.current_year # {} THEN doc.current_year ELSE {y}
YearValue(doc, y) == {y}

\* "social_links" in data
HasLinksAlways(doc) == TRUE
HasLinks(doc) == doc.social_links.tag # "absent"

\* whether `for link in data["social_links"]` can iterate the value
Iterable(sl) == sl.tag \in {"list", "str", "dict"}

\* isinstance(link, dict) and "svg_path" in link
QualifiesAnyDict(link) == link.tag = "dict"
Qualifies(link) == link.tag = "dict" /\ link.svg_path # {}

\* link["svg_data"] = svg_file.read()
InlineKeep(link, text) == IF link.svg_data # {} THEN link ELSE [link EXCEPT !.svg_data = {text}]
Inline(link, text) == [link EXCEPT !.svg_data = {text}]

----------------------------------------------------------------------------
Init ==
  /\ input \in Inputs
  /\ files \in [OutputPaths -> {NoFile, OldFile}]
  /\ before = files
  /\ run = 1
  /\ pc = MainOrder[1]
  /\ failedAt = "none"
  /\ data = NoDoc
  /\ i = 0
  /\ handles = {}
  /\ clock = 0
  /\ html_output = NoText
  /\ resume_output = NoText
  /\ confirmations = 0
  /\ log = <<>>
  /\ openedFor = {}
  /\ last = [ok |-> FALSE, year |-> 0, files |-> files]

\* an exception nobody catches ends the run
Raise == /\ pc' = "failed"
         /\ failedAt' = pc

Goto(p) == /\ pc' = p
           /\ failedAt' = failedAt

\* load_json: Path(file_path).open(encoding="utf-8")
LoadOpen ==
  /\ pc = "load_open"
  /\ \/ /\ handles' = handles \cup {"portfolio.json"}
        /\ Goto("load_parse")
     \/ /\ Raise
        /\ handles' = handles
  /\ UNCHANGED <<input, before, run, data, i, clock, html_output,
                 resume_output, files, confirmations, log, openedFor, last>>

\* load_json: json.load(f), then the with block is left
LoadParse ==
  /\ pc = "load_parse"
  /\ handles' = Close(handles, "portfolio.json")
  /\ \/ /\ data' = input
        /\ log' = Append(log, "load")
        /\ Goto(After("load_open"))
     \/ /\ Raise
        /\ UNCHANGED <<data, log>>
  /\ UNCHANGED <<input, before, run, i, clock, html_output, resume_output,
                 files, confirmations, openedFor, last>>

\* data["current_year"] = datetime.now(tz=UTC).year
SetYear ==
  /\ pc = "set_year"
  /\ \E y \in Years :
       /\ y >= clock
       /\ clock' = y
       /\ IF data.top = "dict"
          THEN /\ data' = [data EXCEPT !.current_year = YearValue(data, y)]
               /\ Goto(After("set_year"))
          ELSE /\ Raise
               /\ data' = data
  /\ UNCHANGED <<input, before, run, i, handles, html_output, resume_output,
                 files, confirmations, log, openedFor, last>>

\* if "social_links" in data: for link in data["social_links"]:
LinksCheck ==
  /\ pc = "links_check"
  /\ IF ~HasLinks(data)
     THEN /\ Goto(After("links_check"))
          /\ log' = Append(log, "augment")
          /\ i' = i
     ELSE IF Iterable(data.social_links)
     THEN /\ Goto("loop")
          /\ i' = 1
          /\ log' = log
     ELSE /\ Raise
          /\ UNCHANGED <<i, log>>
  /\ UNCHANGED <<input, before, run, data, handles, clock, html_output,
                 resume_output, files, confirmations, openedFor, last>>

\* the for loop is exhausted
LoopEnd ==
  /\ pc = "loop"
  /\ i > Len(data.social_links.items)
  /\ Goto(After("links_check"))
  /\ log' = Append(log, "augment")
  /\ UNCHANGED <<input, before, run, data, i, handles, clock, html_output,
                 resume_output, files, confirmations, openedFor, last>>

\* an element that is not a dict with svg_path
LinkSkip ==
  /\ pc = "loop"
  /\ i <= Len(data.social_links.items)
  /\ ~Qualifies(data.social_links.items[i])
  /\ i' = i + 1
  /\ Goto("loop")
  /\ UNCHANGED <<input, before, run, data, handles, clock, html_output,
                 resume_output, files, confirmations, log, openedFor, last>>

\* svg_path = link["svg_path"]; Path(svg_path).open(encoding="utf-8")
LinkOpen ==
  /\ pc = "loop"
  /\ i <= Len(data.social_links.items)
  /\ Qualifies(data.social_links.items[i])
  /\ LET link == data.social_links.items[i] IN
       IF link.svg_path = {}
       THEN /\ Raise
            /\ UNCHANGED <<handles, openedFor>>
       ELSE /\ openedFor' = openedFor \cup {i}
            /\ \/ /\ \E p \in link.svg_path : IconText(p) # {}
                  /\ handles' = handles \cup link.svg_path
                  /\ Goto("svg_read")
               \/ /\ Raise
                  /\ handles' = handles
  /\ UNCHANGED <<input, before, run, data, i, clock, html_output,
                 resume_output, files, confirmations, log, last>>

\* link["svg_data"] = svg_file.read(), then the with block is left
LinkRead ==
  /\ pc = "svg_read"
  /\ LET link == data.social_links.items[i] IN
       \E p \in link.svg_path :
         /\ handles' = Close(handles, p)
         /\ \/ /\ \E t \in IconText(p) :
                    data' = [data EXCEPT !.social_links.items[i] = Inline(@, t)]
               /\ i' = i + 1
               /\ Goto("loop")
            \/ /\ Raise
               /\ UNCHANGED <<data, i>>
  /\ UNCHANGED <<input, before, run, clock, html_output, resume_output,
                 files, confirmations, log, openedFor, last>>

\* setup_jinja_env, then load_template(env, "index_template.html")
GetIndexTemplate ==
  /\ pc = "get_index"
  /\ \/ Goto(After("get_index"))
     \/ Raise
  /\ UNCHANGED <<input, before, run, data, i, handles, clock, html_output,
                 resume_output, files, confirmations, log, openedFor, last>>

\* load_template(env, "resume_template.html")
GetResumeTemplate ==
  /\ pc = "get_resume"
  /\ \/ Goto(After("get_resume"))
     \/ Raise
  /\ UNCHANGED <<input, before, run, data, i, handles, clock, html_output,
                 resume_output, files, confirmations, log, openedFor, last>>

\* html_output = render_template(index_template, data)
RenderIndex ==
  /\ pc = "render_index"
  /\ \/ /\ html_output' = render_template("index_template.html", data)
        /\ log' = Append(log, "render_index")
        /\ Goto(After("render_index"))
     \/ /\ Raise
        /\ UNCHANGED <<html_output, log>>
  /\ UNCHANGED <<input, before, run, data, i, handles, clock, resume_output,
                 files, confirmations, openedFor, last>>

\* resume_output = render_template(resume_template, data)
RenderResume ==
  /\ pc = "render_resume"
  /\ \/ /\ resume_output' = render_template("resume_template.html", data)
        /\ log' = Append(log, "render_resume")
        /\ Goto(After("render_resume"))
     \/ /\ Raise
        /\ UNCHANGED <<resume_output, log>>
  /\ UNCHANGED <<input, before, run, data, i, handles, clock, html_output,
                 files, confirmations, openedFor, last>>

\* write_to_file: Path(file_path).open("w", encoding="utf-8")
OpenW(path, here, body) ==
  /\ pc = here
  /\ \/ /\ files' = [files EXCEPT ![path] = Truncate(@)]
        /\ handles' = handles \cup {path}
        /\ Goto(body)
     \/ /\ Raise
        /\ UNCHANGED <<files, handles>>
  /\ UNCHANGED <<input, before, run, data, i, clock, html_output,
                 resume_output, confirmations, log, openedFor, last>>

\* write_to_file: f.write(content), then the with block is left
WriteW(path, here, stmt, entry) ==
  /\ pc = here
  /\ handles' = Close(handles, path)
  /\ LET content == ContentFor(path, html_output, resume_output) IN
       \/ /\ files' = [files EXCEPT ![path] = WriteAll(@, content)]
          /\ log' = Append(log, entry)
          /\ Goto(After(stmt))
       \/ /\ \E f \in WriteSome(files[path], content) :
               files' = [files EXCEPT ![path] = f]
          /\ Raise
          /\ log' = log
  /\ UNCHANGED <<input, before, run, data, i, clock, html_output,
                 resume_output, confirmations, openedFor, last>>

OpenIndex == OpenW("index.html", "open_index", "write_index")
WriteIndex == WriteW("index.html", "write_index", "open_index", "write_index")
OpenResume == OpenW("resume.html", "open_resume", "write_resume")
WriteResume == WriteW("resume.html", "write_resume", "open_resume", "write_resume")

\* print("HTML files generated successfully!")
PrintDone ==
  /\ pc = "print"
  /\ confirmations' = confirmations + 1
  /\ log' = Append(log, "report")
  /\ Goto(After("print"))
  /\ UNCHANGED <<input, before, run, data, i, handles, clock, html_output,
                 resume_output, files, openedFor, last>>

\* the script is started again: a fresh process over the files on disk
Rerun ==
  /\ Terminal
  /\ run < MaxRuns
  /\ run' = run + 1
  /\ last' = IF pc = "done"
             THEN [ok |-> TRUE, year |-> clock, files |-> files]
             ELSE last
  /\ before' = files
  /\ pc' = MainOrder[1]
  /\ failedAt' = "none"
  /\ data' = NoDoc
  /\ i' = 0
  /\ handles' = {}
  /\ html_output' = NoText
  /\ resume_output' = NoText
  /\ confirmations' = 0
  /\ log' = <<>>
  /\ openedFor' = {}
  /\ UNCHANGED <<input, files, clock>>

Next ==
  \/ LoadOpen
  \/ LoadParse
  \/ SetYear
  \/ LinksCheck
  \/ LoopEnd
  \/ LinkSkip
  \/ LinkOpen
  \/ LinkRead
  \/ GetIndexTemplate
  \/ GetResumeTemplate
  \/ RenderIndex
  \/ RenderResume
  \/ OpenIndex
  \/ WriteIndex
  \/ OpenResume
  \/ WriteResume
  \/ PrintDone
  \/ Rerun

Spec == Init /\ [][Next]_vars

----------------------------------------------------------------------------
\* vocabulary of the properties

FullOrder == <<"load", "augment", "render_index", "render_resume",
               "write_index", "write_resume", "report">>

Did(s) == \E n \in 1..Len(log) : log[n] = s

AugmentSteps == {"links_check", "loop", "svg_read"}
PreWriteSteps == {"load_open", "load_parse", "set_year", "get_index",
                  "get_resume", "render_index", "render_resume"}
                 \cup AugmentSteps
WriteSteps == {"open_index", "write_index", "open_resume", "write_resume"}

TemplateOf(f) ==
  IF f = "index.html" THEN "index_template.html" ELSE "resume_template.html"
WriteStepOf(f) == IF f = "index.html" THEN "write_index" ELSE "write_resume"

\* the complete rendered text of a page, as a file
Expected(f) == FullFile([tpl |-> TemplateOf(f), ctx |-> data])
\* what an interrupted write of the page can leave behind
Cut(f) == {[exists |-> TRUE, segs |-> <<>>],
           [exists |-> TRUE,
            segs |-> <<[text |-> [tpl |-> TemplateOf(f), ctx |-> data],
                        part |-> "some"]>>]}

IsIconEntry(e) == e.tag = "dict" /\ e.svg_path # {}
InputItems == input.social_links.items
Loaded == data.top # "unset"

----------------------------------------------------------------------------
\* C1: a failure in any step before the writes leaves both output files as
\* they were before the run, and no write_to_file call starts (no output
\* file is opened or changed) before both renders have completed.
C1_NoOutputBeforeRenders ==
  /\ (pc = "failed" /\ failedAt \in PreWriteSteps) => files = before
  /\ (pc \in WriteSteps \/ files # before \/ handles \cap OutputPaths # {})
       => (html_output # NoText /\ resume_output # NoText
           /\ Did("render_index") /\ Did("render_resume"))

C1_Witness ==
  /\ pc = "failed"
  /\ failedAt = "render_resume"
  /\ html_output # NoText
  /\ before["index.html"] = OldFile
  /\ files = before

\* C2 as stated: in every terminal state each output file holds either what
\* it held before the run or the complete rendered text of its page.
C2_AllOrNothing ==
  Terminal => \A f \in OutputPaths :
                files[f] = before[f] \/ files[f] = Expected(f)

\* C2 amended: in every terminal state each output file holds what it held
\* before the run, or the complete rendered text of its page, or, when the
\* run failed inside the write to that very file after it was opened, a
\* truncated file holding only a prefix of that text (possibly nothing).
C2_AllOrNothingUnlessWriteFails ==
  Terminal => \A f \in OutputPaths :
                \/ files[f] = before[f]
                \/ files[f] = Expected(f)
                \/ /\ pc = "failed"
                   /\ failedAt = WriteStepOf(f)
                   /\ files[f] \in Cut(f)

C2_Witness ==
  /\ pc = "failed"
  /\ failedAt = "write_resume"
  /\ files["index.html"] = Expected("index.html")
  /\ files["resume.html"] \in Cut("resume.html")
  /\ before["resume.html"] = OldFile

\* C3: once augmentation has completed, every social_links element that is
\* a mapping with svg_path carries svg_data equal to the text of the file at
\* its svg_path, whatever svg_data the input had, and its other keys are as
\* loaded.
C3_IconInlined ==
  Did("augment") =>
    \A k \in 1..Len(InputItems) :
      IsIconEntry(InputItems[k]) =>
        \E p \in InputItems[k].svg_path :
          /\ data.social_links.items[k].svg_data = IconText(p)
          /\ IconText(p) # {}
          /\ data.social_links.items[k]
               = [InputItems[k] EXCEPT !.svg_data = IconText(p)]

C3_Witness ==
  /\ Did("augment")
  /\ Len(InputItems) = 2
  /\ InputItems[1].svg_path = {"a.svg"}
  /\ InputItems[1].svg_data = {"<old/>"}
  /\ InputItems[2].svg_path = {"b.svg"}
  /\ data.social_links.items[1].svg_data = {"<svg>A</svg>"}
  /\ data.social_links.items[2].svg_data = {"<svg>B</svg>"}

\* C4: an element that is not a mapping, or is a mapping without svg_path,
\* stays exactly as loaded, has no file opened for it and is never the
\* element at which the run fails, wherever it stands in the list.
C4_OtherEntriesUntouched ==
  \A k \in 1..Len(InputItems) :
    ~IsIconEntry(InputItems[k]) =>
      /\ Loaded => data.social_links.items[k] = InputItems[k]
      /\ k \notin openedFor
      /\ ~(pc = "failed" /\ failedAt \in {"loop", "svg_read"} /\ i = k)

C4_Witness ==
  /\ Did("augment")
  /\ Len(InputItems) = 2
  /\ IsIconEntry(InputItems[1])
  /\ InputItems[2].tag = "dict"
  /\ InputItems[2].svg_path = {}
  /\ InputItems[2].svg_data = {"<old/>"}
  /\ data.social_links.items[2] = InputItems[2]
  /\ openedFor = {1}

\* C5: without a social_links key, augmentation opens no icon file, does
\* not fail, and leaves every key but current_year as loaded.
C5_NoLinksKey ==
  (input.top = "dict" /\ input.social_links.tag = "absent") =>
    /\ openedFor = {}
    /\ failedAt \notin AugmentSteps \cup {"set_year"}
    /\ pc \notin {"loop", "svg_read"}
    /\ Loaded => /\ data.social_links = input.social_links
                 /\ data.name = input.name
                 /\ data.top = input.top

C5_Witness ==
  /\ input.top = "dict"
  /\ input.social_links.tag = "absent"
  /\ input.current_year = {1999}
  /\ Did("augment")
  /\ data.current_year # input.current_year

\* C6: after augmentation current_year is the year read from the clock in
\* this run, whatever current_year the input carried, and that is the value
\* both renders receive.
C6_YearFromClock ==
  /\ Did("augment") => data.current_year = {clock}
  /\ html_output # NoText => html_output.ctx.current_year = {clock}
  /\ resume_output # NoText => resume_output.ctx.current_year = {clock}

C6_Witness ==
  /\ input.current_year = {1999}
  /\ html_output # NoText
  /\ resume_output # NoText
  /\ resume_output.ctx.current_year = {clock}

\* C7: the confirmation is printed at most once, exactly when the run ends
\* successfully, after load, augment, render index, render resume, write
\* index.html, write resume.html in that order with both files complete; a
\* failed run prints none.
C7_ConfirmationLast ==
  /\ confirmations \in {0, 1}
  /\ log = SubSeq(FullOrder, 1, Len(log))
  /\ (pc = "done") <=> (confirmations = 1)
  /\ confirmations = 1 =>
       /\ log = FullOrder
       /\ \A f \in OutputPaths : files[f] = Expected(f)
  /\ pc = "failed" => confirmations = 0

C7_Witness ==
  /\ pc = "done"
  /\ confirmations = 1
  /\ log = FullOrder

\* C8: a successful run leaves exactly the output files that the previous
\* successful run over the same inputs in the same year left, whatever the
\* output files held when it started.
C8_SameOutputs ==
  (pc = "done" /\ last.ok /\ last.year = clock) => files = last.files

C8_Witness ==
  /\ pc = "done"
  /\ run > 1
  /\ last.ok
  /\ last.year = clock
  /\ files = last.files
  /\ input.social_links.tag = "list"
  /\ Len(InputItems) > 0

\* C9: at most one file handle is open at a time, it is the handle of the
\* step in progress, and none is open between steps or when the run has
\* ended, also when the read or write on it failed.
C9_OneHandle ==
  /\ Cardinality(handles) <= 1
  /\ Terminal => handles = {}
  /\ handles =
       IF pc = "load_parse" THEN {"portfolio.json"}
       ELSE IF pc = "svg_read" THEN data.social_links.items[i].svg_path
       ELSE IF pc = "write_index" THEN {"index.html"}
       ELSE IF pc = "write_resume" THEN {"resume.html"}
       ELSE {}

C9_Witness ==
  /\ pc = "failed"
  /\ failedAt = "svg_read"
  /\ i = 2
  /\ openedFor = {1, 2}
  /\ handles = {}

\* C10: when social_links is present with a value that is not a list,
\* augmentation opens no icon file, leaves the value as loaded and does not
\* fail.
C10_NonListIgnored ==
  (input.top = "dict"
   /\ input.social_links.tag \in {"null", "num", "bool", "str", "dict"}) =>
    /\ openedFor = {}
    /\ Loaded => data.social_links = input.social_links
    /\ failedAt \notin AugmentSteps

====
